---------------------------- MODULE Spec2Model ----------------------------
(***************************************************************************)
(* A model of the release computation engine of release-drafter:          *)
(* lib/releases (src/unnamed/part_000) and the drafter handler of          *)
(* src/index.js.                                                           *)
(*                                                                         *)
(* Strings that carry structure are represented by their abstract syntax:  *)
(* a tag name such as "v1.2.0-beta.3" is the record                        *)
(*   [prefix |-> "v", shape |-> "semver", major |-> 1, minor |-> 2,         *)
(*    patch |-> 0, pre |-> << Str("beta"), Num(3) >>]                       *)
(* and a tag that no version parser accepts has shape "junk".  A release   *)
(* body is the sequence of its lines: 0 is a line of ordinary text and     *)
(* n > 0 is the line "<!-- pr-number: n -->".  JavaScript's undefined and  *)
(* null are the sentinel records NoRelease, NoVersionInfo, NoVersion and   *)
(* the number NoPr.                                                        *)
(***************************************************************************)
EXTENDS Integers, Sequences, FiniteSets, TLC

VARIABLES
    findArgs,      \* the arguments of one findReleases call
    findResult,    \* what that call returned
    findPc,        \* "idle" | "call" | "returned"
    keyArgs,       \* the arguments of one resolveVersionKeyIncrement call
    keyResult,     \* what that call returned
    keyPc,         \* "idle" | "call" | "returned"
    genArgs,       \* the arguments of one generateReleaseInfo call
    genLocals,     \* its local variables
    genResult,     \* the descriptor it returned
    genPc,         \* "idle" | "prSpecific" | "standard" | "body" |
                   \* "returned" | "returnedNull"
    repoReleases,  \* the releases of the repository on the platform
    runLog,        \* one record for each drafter run that got to the releases
    callArgs,      \* the arguments of one call of a function of the change log
    callResult,    \* what that call returned
    callPc,        \* "idle" | "call" | "returned", or the stage of a sequence of calls
    releaseCount,  \* paginate: the releases received so far
    pagesRequested,\* paginate: the pages requested so far
    paginateDone,  \* paginate: done() was called
    morePages      \* paginate: the last response links to a next page

findVars == << findArgs, findResult, findPc >>

keyVars == << keyArgs, keyResult, keyPc >>

genVars == << genArgs, genLocals, genResult, genPc >>

drafterVars == << repoReleases, runLog >>

callVars == << callArgs, callResult, callPc >>

pageVars == << releaseCount, pagesRequested, paginateDone, morePages >>

restVars == << callVars, pageVars >>

vars == << findArgs, findResult, findPc, keyArgs, keyResult, keyPc,
          genArgs, genLocals, genResult, genPc, repoReleases, runLog,
          callArgs, callResult, callPc,
          releaseCount, pagesRequested, paginateDone, morePages >>

-----------------------------------------------------------------------------
(* Bounds of the model.                                                    *)

\* The longest release list handed to findReleases.
MaxReleases == 3

\* The most merged changes of one run, and the most labels of one change.
MaxChanges == 2

MaxLabels == 2

-----------------------------------------------------------------------------
(* Versions and tags.                                                      *)

\* A numeric pre-release segment, as semver parses "3".
Num(n) == [num |-> TRUE, n |-> n, s |-> ""]

\* An alphanumeric pre-release segment, such as "beta".
Str(s) == [num |-> FALSE, n |-> 0, s |-> s]

\* The pre-release identifiers of the model, in lexicographic order.
Identifiers == {"alpha", "beta"}

\* The position of an identifier in JavaScript's string order.
StrRank(s) == CASE s = "alpha" -> 1 [] s = "beta" -> 2 [] OTHER -> 3

\* The text M.m.p[-pre] of a version.
Ver(M, m, p, pre) ==
    [shape |-> "semver", major |-> M, minor |-> m, patch |-> p, pre |-> pre]

\* A text that is no version ("nightly").
JunkText == [shape |-> "junk", major |-> 0, minor |-> 0, patch |-> 0, pre |-> << >>]

\* A tag name: an optional leading "v" and the text after it.
Tag(prefix, text) ==
    [prefix |-> prefix, shape |-> text.shape, major |-> text.major,
     minor |-> text.minor, patch |-> text.patch, pre |-> text.pre]

\* tag_name.startsWith(tagPrefix)
StartsWith(tag, tagPrefix) == tagPrefix = "" \/ tag.prefix = tagPrefix

\* tag_name.replace(/^<tagPrefix>/, '') and tag.slice(tagPrefix.length)
StripPrefix(tag, tagPrefix) ==
    IF tagPrefix # "" /\ tag.prefix = tagPrefix
    THEN [tag EXCEPT !.prefix = ""]
    ELSE tag

-----------------------------------------------------------------------------
(* compare-versions: compareVersions(v1, v2).  Both arguments are          *)
(* validated first; a text that is no version makes the call throw.  A    *)
(* leading "v" is accepted and ignored.                                    *)

IsValidVersion(tag) == tag.shape = "semver"

Sign(x) == IF x > 0 THEN 1 ELSE IF x < 0 THEN -1 ELSE 0

\* compareStrings on two pre-release segments; a missing segment is 0.
\* Numbers compare as numbers, strings as strings, and a number against a
\* string as strings, where a digit sorts before a letter.
CompareSegment(a, b) ==
    CASE a.num /\ b.num -> Sign(a.n - b.n)
      [] a.num /\ ~b.num -> -1
      [] ~a.num /\ b.num -> 1
      [] OTHER -> Sign(StrRank(a.s) - StrRank(b.s))

SegmentAt(pre, i) == IF i <= Len(pre) THEN pre[i] ELSE Num(0)

RECURSIVE CompareSegmentsFrom(_, _, _)
CompareSegmentsFrom(p1, p2, i) ==
    IF i > Len(p1) /\ i > Len(p2) THEN 0
    ELSE LET r == CompareSegment(SegmentAt(p1, i), SegmentAt(p2, i))
         IN IF r # 0 THEN r ELSE CompareSegmentsFrom(p1, p2, i + 1)

\* compareVersions of two valid versions: -1, 0 or 1.
compareVersions(v1, v2) ==
    CASE v1.major # v2.major -> Sign(v1.major - v2.major)
      [] v1.minor # v2.minor -> Sign(v1.minor - v2.minor)
      [] v1.patch # v2.patch -> Sign(v1.patch - v2.patch)
      [] Len(v1.pre) > 0 /\ Len(v2.pre) > 0 -> CompareSegmentsFrom(v1.pre, v2.pre, 1)
      [] Len(v1.pre) > 0 -> -1
      [] Len(v2.pre) > 0 -> 1
      [] OTHER -> 0

-----------------------------------------------------------------------------
(* Releases.                                                               *)

NoPr == 0

Release(id, tag, created, draft, prerelease, commitish, body) ==
    [id |-> id, tag_name |-> tag, created_at |-> created, draft |-> draft,
     prerelease |-> prerelease, target_commitish |-> commitish, body |-> body]

\* undefined / null where a release is expected.
NoRelease == Release(0, Tag("", JunkText), 0, FALSE, FALSE, "", << >>)

\* The comparator of sortReleases: compareVersions on the tags with the
\* prefix stripped, and the difference of the creation dates when
\* compareVersions throws.
SortCompare(r1, r2, tagPrefix) ==
    LET t1 == StripPrefix(r1.tag_name, tagPrefix)
        t2 == StripPrefix(r2.tag_name, tagPrefix)
    IN IF IsValidVersion(t1) /\ IsValidVersion(t2)
       THEN compareVersions(t1, t2)
       ELSE r1.created_at - r2.created_at

(* Array.prototype.sort as Node's V8 runs it on an array shorter than 64   *)
(* elements: the initial run is counted (and reversed when strictly        *)
(* descending), and the rest is inserted by binary insertion.              *)

\* CountAndMakeRun's loop: the length of the run that starts at a[1].
RECURSIVE RunLength(_, _, _, _)
RunLength(a, idx, desc, tagPrefix) ==
    IF idx > Len(a) THEN Len(a)
    ELSE LET order == SortCompare(a[idx], a[idx - 1], tagPrefix)
         IN IF (desc /\ order >= 0) \/ (~desc /\ order < 0)
            THEN idx - 1
            ELSE RunLength(a, idx + 1, desc, tagPrefix)

ReverseRange(a, n) ==
    [i \in 1..Len(a) |-> IF i <= n THEN a[n + 1 - i] ELSE a[i]]

\* BinaryInsertionSort's search, on 0-based bounds as in V8.
RECURSIVE BinarySearch(_, _, _, _, _)
BinarySearch(a, pivot, left, right, tagPrefix) ==
    IF left >= right THEN left
    ELSE LET mid == left + ((right - left) \div 2)
             order == SortCompare(pivot, a[mid + 1], tagPrefix)
         IN IF order < 0
            THEN BinarySearch(a, pivot, left, mid, tagPrefix)
            ELSE BinarySearch(a, pivot, mid + 1, right, tagPrefix)

RECURSIVE BinaryInsertionSort(_, _, _)
BinaryInsertionSort(a, start, tagPrefix) ==
    IF start >= Len(a) THEN a
    ELSE LET pivot == a[start + 1]
             left == BinarySearch(a, pivot, 0, start, tagPrefix)
             moved == [i \in 1..Len(a) |->
                         IF i - 1 < left THEN a[i]
                         ELSE IF i - 1 = left THEN pivot
                         ELSE IF i - 1 <= start THEN a[i - 1]
                         ELSE a[i]]
         IN BinaryInsertionSort(moved, start + 1, tagPrefix)

sortReleases(releases, tagPrefix) ==
    IF Len(releases) < 2 THEN releases
    ELSE LET desc == SortCompare(releases[2], releases[1], tagPrefix) < 0
             run == RunLength(releases, 3, desc, tagPrefix)
             made == IF desc THEN ReverseRange(releases, run) ELSE releases
         IN BinaryInsertionSort(made, run, tagPrefix)

-----------------------------------------------------------------------------
(* findReleases.                                                           *)

\* s.replace(/^refs\/heads\//, '')
StripHeadRef(ref) ==
    CASE ref = "refs/heads/main" -> "main"
      [] ref = "refs/heads/dev" -> "dev"
      [] OTHER -> ref

RECURSIVE FilterSeq(_, _)
\* keep: a set of records; the elements of s that are in it, in order.
FilterSeq(s, keep) ==
    IF s = << >> THEN << >>
    ELSE IF Head(s) \in keep
         THEN << Head(s) >> \o FilterSeq(Tail(s), keep)
         ELSE FilterSeq(Tail(s), keep)

Elements(s) == {s[i] : i \in 1..Len(s)}

LastOf(s) == IF Len(s) = 0 THEN NoRelease ELSE s[Len(s)]

\* r.body?.match(PR_MARKER_REGEX): the number of the first marker line of
\* the body, NoPr when there is none.
RECURSIVE PR_MARKER_REGEX(_)
PR_MARKER_REGEX(body) ==
    IF body = << >> THEN NoPr
    ELSE IF Head(body) > 0 THEN Head(body) ELSE PR_MARKER_REGEX(Tail(body))

CommitishMatches(r, targetCommitish) ==
    StripHeadRef(targetCommitish) = StripHeadRef(r.target_commitish)

\* IsLastReleaseCandidate with the draft test left out.
IsLastReleaseCandidateKeepingDrafts(r, includePreReleases) ==
    ~r.prerelease \/ includePreReleases

IsLastReleaseCandidate(r, includePreReleases) ==
    ~r.draft /\ (~r.prerelease \/ includePreReleases)

IsPrCandidate(r, prNumber) ==
    PR_MARKER_REGEX(r.body) # NoPr /\ PR_MARKER_REGEX(r.body) = prNumber

SelectedReleases(a) ==
    LET commitishFiltered ==
            IF a.filterByCommitish
            THEN FilterSeq(a.releases,
                     {r \in Elements(a.releases) :
                          CommitishMatches(r, a.targetCommitish)})
            ELSE a.releases
    IN IF a.tagPrefix # ""
       THEN FilterSeq(commitishFiltered,
                {r \in Elements(commitishFiltered) :
                     StartsWith(r.tag_name, a.tagPrefix)})
       ELSE commitishFiltered

findReleases(a) ==
    LET sortedSelectedReleases == sortReleases(SelectedReleases(a), a.tagPrefix)
        lastReleaseFilter ==
            FilterSeq(sortedSelectedReleases,
                {r \in Elements(sortedSelectedReleases) :
                     IsLastReleaseCandidate(r, a.includePreReleases)})
        sortedCandidateReleases ==
            FilterSeq(sortedSelectedReleases,
                {r \in Elements(sortedSelectedReleases) :
                     IsPrCandidate(r, a.prNumber)})
    IN [lastRelease |-> LastOf(lastReleaseFilter),
        prSpecificRelease |->
            IF a.isPrereleaseRun /\ Len(sortedSelectedReleases) > 0
            THEN LastOf(sortedCandidateReleases)
            ELSE NoRelease]

-----------------------------------------------------------------------------
(* resolveVersionKeyIncrement.                                             *)

\* The label names of the model.  "constructor" is a label as any other for
\* the hosting platform; for JavaScript it also names a property every
\* plain object inherits from Object.prototype.
Labels == {"breaking", "feature", "fix", "skip", "constructor"}

ObjectPrototypeNames == {"constructor"}

\* priorityMap and Object.keys(priorityMap), in insertion order.
priorityMap(key) ==
    CASE key = "patch" -> 1 [] key = "minor" -> 2 [] key = "major" -> 3

PriorityKeys == << "patch", "minor", "major" >>

\* labelToKeyMap[name]: Object.fromEntries keeps the last entry of a label
\* listed for several classes, and the classes are entered in the order
\* patch, minor, major.  A name that is in no list reads undefined, unless
\* the object inherits a property of that name: then it reads that
\* property, a function.
labelToKeyMap(resolver, name) ==
    CASE name \in resolver.major -> "major"
      [] name \in resolver.minor -> "minor"
      [] name \in resolver.patch -> "patch"
      [] name \in ObjectPrototypeNames -> "inherited"
      [] OTHER -> "undefined"

\* getFilterExcludedPullRequests(excludeLabels)(pullRequest)
getFilterExcludedPullRequests(excludeLabels, pullRequest) ==
    ~ \E i \in 1..Len(pullRequest.labels) : pullRequest.labels[i] \in excludeLabels

\* getFilterIncludedPullRequests(includeLabels)(pullRequest)
getFilterIncludedPullRequests(includeLabels, pullRequest) ==
    \/ includeLabels = {}
    \/ \E i \in 1..Len(pullRequest.labels) : pullRequest.labels[i] \in includeLabels

\* The scan of resolveVersionKeyIncrement with the exclude-label filter left
\* out.
FilteredPullRequestsIgnoringExclude(pullRequests, config) ==
    FilterSeq(pullRequests,
              {pr \in Elements(pullRequests) :
                   getFilterIncludedPullRequests(config.includeLabels, pr)})

\* The pull requests that pass both label filters, in order.
RECURSIVE FilteredPullRequests(_, _)
FilteredPullRequests(pullRequests, config) ==
    IF pullRequests = << >> THEN << >>
    ELSE LET pr == Head(pullRequests)
             rest == FilteredPullRequests(Tail(pullRequests), config)
         IN IF /\ getFilterExcludedPullRequests(config.excludeLabels, pr)
               /\ getFilterIncludedPullRequests(config.includeLabels, pr)
            THEN << pr >> \o rest
            ELSE rest

\* .flatMap(pr => pr.labels.nodes.map(node => labelToKeyMap[node.name]))
RECURSIVE FlatMapKeys(_, _)
FlatMapKeys(pullRequests, resolver) ==
    IF pullRequests = << >> THEN << >>
    ELSE [i \in 1..Len(Head(pullRequests).labels) |->
              labelToKeyMap(resolver, Head(pullRequests).labels[i])]
         \o FlatMapKeys(Tail(pullRequests), resolver)

\* .filter(Boolean): undefined is dropped, a function is kept.
TruthyKeys(keys) == SelectSeq(keys, LAMBDA k : k # "undefined")

\* Math.max(...keyPriorities), with -1 for -Infinity (no argument) and 0
\* for NaN (an argument that is undefined, as priorityMap[<function>] is).
MathMaxPriority(keys) ==
    IF keys = << >> THEN -1
    ELSE IF \E i \in 1..Len(keys) : keys[i] = "inherited" THEN 0
    ELSE LET ps == {priorityMap(keys[i]) : i \in 1..Len(keys)}
         IN CHOOSE m \in ps : \A q \in ps : q <= m

\* Object.keys(priorityMap).find(key => priorityMap[key] === priority)
FindKeyOfPriority(priority) ==
    IF \E i \in 1..3 : priorityMap(PriorityKeys[i]) = priority
    THEN PriorityKeys[CHOOSE i \in 1..3 : priorityMap(PriorityKeys[i]) = priority]
    ELSE "undefined"

\* `pre${versionKeyIncrement}`
PreKey(key) ==
    CASE key = "patch" -> "prepatch" [] key = "minor" -> "preminor"
      [] key = "major" -> "premajor"

resolveVersionKeyIncrement(mergedPullRequests, config, isPreRelease) ==
    LET keys == TruthyKeys(FlatMapKeys(
                    FilteredPullRequests(mergedPullRequests, config),
                    config.versionResolver))
        versionKey == FindKeyOfPriority(MathMaxPriority(keys))
        versionKeyIncrement ==
            IF versionKey # "undefined" THEN versionKey
            ELSE config.versionResolver.default
        shouldIncrementAsPrerelease ==
            isPreRelease /\ config.prereleaseIdentifier # ""
    IN IF ~shouldIncrementAsPrerelease
       THEN versionKeyIncrement
       ELSE PreKey(versionKeyIncrement)

-----------------------------------------------------------------------------
(* categorizePullRequests.  A category is [title, labels]; the result is   *)
(* the uncategorized list and, per category, the list of its changes.      *)

\* new Set(categories.flatMap(category => category.labels))
AllCategoryLabels(categories) ==
    UNION {categories[i].labels : i \in DOMAIN categories}

\* categories.findIndex(category => category.labels.length === 0), counted
\* from 1; 0 where findIndex gives -1.
UncategorizedCategoryIndex(categories) ==
    IF \E i \in DOMAIN categories : categories[i].labels = {}
    THEN CHOOSE i \in DOMAIN categories :
             /\ categories[i].labels = {}
             /\ \A j \in 1..(i - 1) : categories[j].labels # {}
    ELSE 0

\* The test of an uncategorized change with the second disjunct left out.
IsUncategorizedWhenUnlabelled(pullRequest, allCategoryLabels) ==
    Len(pullRequest.labels) = 0

\* labels.length === 0 || !labels.some(label => allCategoryLabels.has(label.name))
IsUncategorized(pullRequest, allCategoryLabels) ==
    \/ Len(pullRequest.labels) = 0
    \/ ~ \E i \in 1..Len(pullRequest.labels) : pullRequest.labels[i] \in allCategoryLabels

\* labels.some(label => category.labels.includes(label.name))
CategoryMatches(category, pullRequest) ==
    \E i \in 1..Len(pullRequest.labels) : pullRequest.labels[i] \in category.labels

categorizePullRequests(pullRequests, config) ==
    LET categories == config.categories
        allCategoryLabels == AllCategoryLabels(categories)
        uncategorizedCategoryIndex == UncategorizedCategoryIndex(categories)
        labelFiltered ==
            FilterSeq(pullRequests,
                {pr \in Elements(pullRequests) :
                     /\ getFilterExcludedPullRequests(config.excludeLabels, pr)
                     /\ getFilterIncludedPullRequests(config.includeLabels, pr)})
        withoutCategory ==
            FilterSeq(labelFiltered,
                {pr \in Elements(labelFiltered) : IsUncategorized(pr, allCategoryLabels)})
        filteredPullRequests ==
            FilterSeq(labelFiltered,
                {pr \in Elements(labelFiltered) : ~IsUncategorized(pr, allCategoryLabels)})
    IN [uncategorized |->
            IF uncategorizedCategoryIndex = 0 THEN withoutCategory ELSE << >>,
        categorized |->
            [i \in DOMAIN categories |->
                 [title |-> categories[i].title,
                  labels |-> categories[i].labels,
                  pullRequests |->
                      (IF i = uncategorizedCategoryIndex THEN withoutCategory ELSE << >>)
                      \o FilterSeq(filteredPullRequests,
                             {pr \in Elements(filteredPullRequests) :
                                  CategoryMatches(categories[i], pr)})]]]

-----------------------------------------------------------------------------
(* contributorsSentence.  A string is the sequence of its pieces; the      *)
(* pieces are compared by their first UTF-16 code unit, which separates    *)
(* every two different pieces used here.                                   *)

NoUser == "<no user>"

NoAuthor == [login |-> "<no author>", typename |-> "<none>"]

CodeUnit ==
    [c \in {"@", "A", "[", "a", "b", "c", "[bot]](url)"} |->
         CASE c = "@" -> 64
           [] c = "A" -> 65
           [] c = "[" -> 91
           [] c = "[bot]](url)" -> 91
           [] c = "a" -> 97
           [] c = "b" -> 98
           [] c = "c" -> 99]

\* The default comparison of Array.prototype.sort: by UTF-16 code units,
\* a proper prefix first.
RECURSIVE StringLess(_, _)
StringLess(x, y) ==
    IF y = << >> THEN FALSE
    ELSE IF x = << >> THEN TRUE
    ELSE IF CodeUnit[Head(x)] # CodeUnit[Head(y)]
         THEN CodeUnit[Head(x)] < CodeUnit[Head(y)]
         ELSE StringLess(Tail(x), Tail(y))

\* array.push: the element is added whether or not it is there already.
ArrayPush(contributors, identifier) == Append(contributors, identifier)

\* Set.prototype.add: the set in insertion order.
SetAdd(contributors, identifier) ==
    IF \E i \in 1..Len(contributors) : contributors[i] = identifier
    THEN contributors
    ELSE Append(contributors, identifier)

RECURSIVE AddCommitAuthors(_, _, _)
AddCommitAuthors(contributors, commits, excludeContributors) ==
    IF commits = << >> THEN contributors
    ELSE LET author == Head(commits).author
             next ==
                 IF author.user # NoUser
                 THEN IF author.user \notin excludeContributors
                      THEN SetAdd(contributors, << "@", author.user >>)
                      ELSE contributors
                 ELSE SetAdd(contributors, << author.name >>)
         IN  AddCommitAuthors(next, Tail(commits), excludeContributors)

RECURSIVE AddPullRequestAuthors(_, _, _)
AddPullRequestAuthors(contributors, pullRequests, excludeContributors) ==
    IF pullRequests = << >> THEN contributors
    ELSE LET author == Head(pullRequests).author
             next ==
                 IF author # NoAuthor /\ author.login \notin excludeContributors
                 THEN IF author.typename = "Bot"
                      THEN SetAdd(contributors,
                                  << "[", author.login, "[bot]](url)" >>)
                      ELSE SetAdd(contributors, << "@", author.login >>)
                 ELSE contributors
         IN  AddPullRequestAuthors(next, Tail(pullRequests),
                                   excludeContributors)

\* The place of x in the sorted sequence s.
RECURSIVE InsertSorted(_, _)
InsertSorted(s, x) ==
    IF s = << >> THEN << x >>
    ELSE IF StringLess(x, Head(s)) THEN << x >> \o s
         ELSE << Head(s) >> \o InsertSorted(Tail(s), x)

\* [...contributors].sort()
RECURSIVE SortStrings(_)
SortStrings(s) ==
    IF s = << >> THEN << >>
    ELSE InsertSorted(SortStrings(SubSeq(s, 1, Len(s) - 1)), s[Len(s)])

\* array.join(', ')
RECURSIVE JoinComma(_)
JoinComma(s) ==
    IF s = << >> THEN << >>
    ELSE IF Len(s) = 1 THEN s[1]
         ELSE s[1] \o << ", " >> \o JoinComma(Tail(s))

contributorsSentence(commits, pullRequests, config) ==
    LET contributors ==
            AddPullRequestAuthors(
                AddCommitAuthors(<< >>, commits, config.excludeContributors),
                pullRequests, config.excludeContributors)
        sortedContributors == SortStrings(contributors)
    IN  IF Len(sortedContributors) > 1
        THEN JoinComma(SubSeq(sortedContributors, 1,
                              Len(sortedContributors) - 1))
                 \o << " and " >>
                 \o sortedContributors[Len(sortedContributors)]
        ELSE IF Len(sortedContributors) = 1
             THEN sortedContributors[1]
             ELSE config.noContributorsTemplate

-----------------------------------------------------------------------------
(* escapeTitle of generateChangeLog.  A title is the sequence of its       *)
(* characters; the result is the sequence of the replacements, one string  *)
(* for each character.                                                     *)

\* The back-tick character, written as a word.
BackTick == "BACKTICK"

\* The first back-tick after position i, 0 if there is none.
RECURSIVE NextBackTick(_, _)
NextBackTick(title, i) ==
    IF i >= Len(title) THEN 0
    ELSE IF title[i + 1] = BackTick THEN i + 1 ELSE NextBackTick(title, i + 1)

\* The span taken greedily: up to the last back-tick after position i.
SpanEndGreedy(title, i) ==
    IF \E j \in (i + 1)..Len(title) : title[j] = BackTick
    THEN CHOOSE j \in (i + 1)..Len(title) :
             /\ title[j] = BackTick
             /\ \A k \in (j + 1)..Len(title) : title[k] # BackTick
    ELSE 0

\* The lazy ".*?" at a back-tick at position i: the end of the shortest match, the
\* next back-tick; 0 if the alternative does not match.
SpanEnd(title, i) == NextBackTick(title, i)

\* The replacement function for a match of one character.
EscapeMatch(match) ==
    IF match = "@" \/ match = "#" THEN match \o "<!---->" ELSE "\\" \o match

\* title.replace with the pattern "[<escapes>]|BACKTICK.*?BACKTICK", global: at each position the character
\* class is tried first and the code span second; a position where neither
\* matches is copied.
RECURSIVE ReplaceFrom(_, _, _)
ReplaceFrom(title, i, escapes) ==
    IF i > Len(title) THEN << >>
    ELSE IF title[i] \in escapes
         THEN << EscapeMatch(title[i]) >> \o ReplaceFrom(title, i + 1, escapes)
         ELSE IF title[i] = BackTick /\ SpanEnd(title, i) # 0
              THEN SubSeq(title, i, SpanEnd(title, i))
                       \o ReplaceFrom(title, SpanEnd(title, i) + 1, escapes)
              ELSE << title[i] >> \o ReplaceFrom(title, i + 1, escapes)

escapeTitle(title, escapes) == ReplaceFrom(title, 1, escapes)

-----------------------------------------------------------------------------
(* Version arithmetic: semver.parse and semver.inc, and getVersionInfo of  *)
(* lib/versions.                                                           *)

NoVersion == Ver(0, 0, 0, << >>)

\* semver.parse(text): a version, or null for a text that is none.  A
\* leading "v" is accepted.
SemverParses(tag) == tag.shape = "semver"

\* semver.inc(v, 'pre', identifier), for a version with a pre-release part
\* of at most two segments.
IncPre(pre, identifier) ==
    LET bumped ==
            CASE Len(pre) = 0 -> << Num(0) >>
              [] pre[Len(pre)].num ->
                    [pre EXCEPT ![Len(pre)] = Num(pre[Len(pre)].n + 1)]
              [] Len(pre) = 2 /\ pre[1].num -> << Num(pre[1].n + 1), pre[2] >>
              [] OTHER -> Append(pre, Num(0))
    IN IF bumped[1] = Str(identifier)
       THEN IF Len(bumped) >= 2 /\ bumped[2].num
            THEN bumped
            ELSE << Str(identifier), Num(0) >>
       ELSE << Str(identifier), Num(0) >>

\* semver.inc(v, release, identifier)
SemverInc(v, release, identifier) ==
    CASE release = "major" ->
            Ver(IF v.minor # 0 \/ v.patch # 0 \/ Len(v.pre) = 0
                THEN v.major + 1 ELSE v.major, 0, 0, << >>)
      [] release = "minor" ->
            Ver(v.major,
                IF v.patch # 0 \/ Len(v.pre) = 0 THEN v.minor + 1 ELSE v.minor,
                0, << >>)
      [] release = "patch" ->
            Ver(v.major, v.minor,
                IF Len(v.pre) = 0 THEN v.patch + 1 ELSE v.patch, << >>)
      [] release = "premajor" ->
            Ver(v.major + 1, 0, 0, IncPre(<< >>, identifier))
      [] release = "preminor" ->
            Ver(v.major, v.minor + 1, 0, IncPre(<< >>, identifier))
      [] release = "prepatch" ->
            Ver(v.major, v.minor, v.patch + 1, IncPre(<< >>, identifier))

\* The version tokens getVersionInfo returns; undefined is NoVersionInfo.
VersionInfo(v) == [resolved |-> TRUE, version |-> v]

NoVersionInfo == [resolved |-> FALSE, version |-> NoVersion]

\* getVersionInfo(release, template, input, versionKeyIncrement, tagPrefix,
\* identifier): the bump class applied to the version of the release's
\* tag, a pre-fixed class giving the suffix -<identifier>.0.  For a release
\* that is absent or whose tag is no version there is no version to apply
\* the class to; what is returned then is not described: nothing, or the
\* class applied to the initial version 0.0.0.  The set of the possible
\* results.
getVersionInfo(release, versionKeyIncrement, tagPrefix, identifier) ==
    IF release # NoRelease /\ SemverParses(StripPrefix(release.tag_name, tagPrefix))
    THEN {VersionInfo(SemverInc(release.tag_name, versionKeyIncrement, identifier))}
    ELSE {NoVersionInfo,
          VersionInfo(SemverInc(NoVersion, versionKeyIncrement, identifier))}

\* template(tagTemplate, versionInfo) for the tag template
\* "$RESOLVED_VERSION", with the tag prefix put in front.
RenderTag(versionInfo, tagPrefix) == Tag(tagPrefix, versionInfo.version)

-----------------------------------------------------------------------------
(* generateReleaseInfo, in the three parts its comments name: the          *)
(* PR-specific pre-release logic, the standard version calculation, and    *)
(* the body and the descriptor.                                            *)

\* isPreRelease && preReleaseIdentifier && prNumber !== null
IsPrereleaseRun(a) ==
    a.isPreRelease /\ a.config.prereleaseIdentifier # "" /\ a.prNumber # NoPr

\* The local variables as declared: versionInfo = null, calculatedTag = tag
\* (a sequence: empty for undefined), body = '' (no line).  suffixVersion
\* and the two ...Ran flags record which computations were executed.
InitialLocals(a) ==
    [versionInfo |-> NoVersionInfo,
     resolvedVersion |-> NoVersion,
     majorVersion |-> 0, minorVersion |-> 0, patchVersion |-> 0,
     calculatedTag |-> a.tag,
     body |-> << >>,
     prSpecificDraftExists |-> FALSE,
     markerAdded |-> FALSE,
     suffixIncrementRan |-> FALSE,
     suffixVersion |-> NoVersion,
     standardCalculationRan |-> FALSE]

\* The test of the draft's parsed tag: a version with at least two
\* pre-release segments, the first the configured identifier, the second
\* a number.
DraftTagIsIncrementable(a) ==
    LET currentVersionStr ==
            IF a.config.tagPrefix # "" /\ StartsWith(a.prSpecificRelease.tag_name, a.config.tagPrefix)
            THEN StripPrefix(a.prSpecificRelease.tag_name, a.config.tagPrefix)
            ELSE a.prSpecificRelease.tag_name
    IN /\ SemverParses(currentVersionStr)
       /\ Len(currentVersionStr.pre) >= 2
       /\ currentVersionStr.pre[1] = Str(a.config.prereleaseIdentifier)
       /\ currentVersionStr.pre[2].num

\* Lines 470-562.  The versionInfo computed here is a constant of the inner
\* block: the function's own versionInfo stays null.
PrSpecificPrereleaseLogic(a, l) ==
    IF IsPrereleaseRun(a) /\ a.prSpecificRelease # NoRelease
    THEN IF DraftTagIsIncrementable(a)
         THEN LET parsedVersion == a.prSpecificRelease.tag_name
                  nextSuffix == parsedVersion.pre[2].n + 1
                  version == Ver(parsedVersion.major, parsedVersion.minor,
                                 parsedVersion.patch,
                                 << Str(a.config.prereleaseIdentifier), Num(nextSuffix) >>)
                  versionKeyIncrement ==
                      resolveVersionKeyIncrement(a.mergedPullRequests, a.config, a.isPreRelease)
                  innerVersionInfo ==
                      CHOOSE vi \in getVersionInfo(a.prSpecificRelease, versionKeyIncrement,
                                                   a.config.tagPrefix,
                                                   a.config.prereleaseIdentifier) : TRUE
              IN [l EXCEPT !.prSpecificDraftExists = TRUE,
                           !.resolvedVersion = version,
                           !.majorVersion = parsedVersion.major,
                           !.minorVersion = parsedVersion.minor,
                           !.patchVersion = parsedVersion.patch,
                           !.calculatedTag =
                               IF l.calculatedTag = << >>
                               THEN << RenderTag(innerVersionInfo, a.config.tagPrefix) >>
                               ELSE l.calculatedTag,
                           !.suffixIncrementRan = TRUE,
                           !.suffixVersion = version]
         ELSE [l EXCEPT !.prSpecificDraftExists = TRUE]
    ELSE l

\* Lines 565-638 after getVersionInfo returned versionInfo with a resolved
\* version.
StandardVersionCalculation(a, l, versionInfo) ==
    LET first == IsPrereleaseRun(a) /\ ~l.prSpecificDraftExists
        v == versionInfo.version
        resolvedVersion ==
            IF first
            THEN Ver(v.major, v.minor, v.patch,
                     << Str(a.config.prereleaseIdentifier), Num(0) >>)
            ELSE v
        adjusted == VersionInfo(resolvedVersion)
    IN [l EXCEPT !.versionInfo = adjusted,
                 !.resolvedVersion = resolvedVersion,
                 !.majorVersion = v.major,
                 !.minorVersion = v.minor,
                 !.patchVersion = v.patch,
                 !.body = IF first THEN << a.prNumber >> ELSE l.body,
                 !.markerAdded = first,
                 !.calculatedTag =
                     IF l.calculatedTag = << >>
                     THEN << RenderTag(adjusted, a.config.tagPrefix) >>
                     ELSE l.calculatedTag,
                 !.standardCalculationRan = TRUE]

\* The rendered header, template and footer: the lines of the configured
\* header, which the template function copies as they are, and one line of
\* text for the template and the footer.
GeneratedBody(a) == a.config.header \o << 0 >>

NoDescriptor ==
    [tag |-> Tag("", JunkText), body |-> << >>, targetCommitish |-> "",
     prerelease |-> FALSE, make_latest |-> "", draft |-> FALSE,
     resolvedVersion |-> NoVersion,
     majorVersion |-> 0, minorVersion |-> 0, patchVersion |-> 0,
     foundPrSpecificDraft |-> FALSE]

\* Lines 640-694.
BuildDescriptor(a, l) ==
    [tag |-> l.calculatedTag[1],
     body |-> GeneratedBody(a) \o
              (IF IsPrereleaseRun(a) /\ ~l.markerAdded
               THEN Append(l.body, a.prNumber)
               ELSE l.body),
     targetCommitish |->
         IF a.targetCommitish = "refs/tags/v1" THEN "" ELSE a.targetCommitish,
     prerelease |-> a.isPreRelease,
     make_latest |-> a.latest,
     draft |-> a.shouldDraft,
     resolvedVersion |-> l.resolvedVersion,
     majorVersion |-> l.majorVersion,
     minorVersion |-> l.minorVersion,
     patchVersion |-> l.patchVersion,
     foundPrSpecificDraft |-> l.prSpecificDraftExists]

\* The arguments of the standard calculation's getVersionInfo call.
StandardVersionInfos(a) ==
    getVersionInfo(a.lastRelease,
                   resolveVersionKeyIncrement(a.mergedPullRequests, a.config, a.isPreRelease),
                   a.config.tagPrefix, a.config.prereleaseIdentifier)

-----------------------------------------------------------------------------
(* generateReleaseInfo as one call, and the drafter's use of it.           *)

\* What a call of generateReleaseInfo that starts with the given values of
\* its locals can return: null (isNull) when the version is not resolved,
\* and the descriptor otherwise.
generateReleaseInfoFrom(a, locals) ==
    LET l == PrSpecificPrereleaseLogic(a, locals)
    IN IF l.versionInfo = NoVersionInfo
       THEN {IF versionInfo.resolved
             THEN [isNull |-> FALSE,
                   info |-> BuildDescriptor(a,
                                StandardVersionCalculation(a, l, versionInfo))]
             ELSE [isNull |-> TRUE, info |-> NoDescriptor] :
                 versionInfo \in StandardVersionInfos(a)}
       ELSE {[isNull |-> FALSE, info |-> BuildDescriptor(a, l)]}

\* The locals are declared in the function: every call starts with them as
\* declared.
generateReleaseInfo(a) == generateReleaseInfoFrom(a, InitialLocals(a))

\* input.latest || config.latest: the latest setting without regard to
\* prerelease.
LatestSettingOfInput(prerelease, input, config) ==
    IF input.latest # "" THEN input.latest ELSE config.latest

\* config.prerelease ? 'false' : input.latest || config.latest || undefined
LatestSetting(prerelease, input, config) ==
    IF prerelease THEN "false"
    ELSE IF input.latest # "" THEN input.latest ELSE config.latest

\* updateConfigFromInput: the input's prerelease, when given ("" is
\* undefined), replaces the configuration's, and so does its identifier;
\* latest is 'false' for a pre-release, else the input's, else the
\* configuration's.
updateConfigFromInput(config, input) ==
    LET prerelease ==
            IF input.prerelease # "" THEN input.prerelease = "true"
            ELSE config.prerelease
    IN [config EXCEPT
           !.prerelease = prerelease,
           !.prereleaseIdentifier =
               IF input.preReleaseIdentifier # "" THEN input.preReleaseIdentifier
               ELSE @,
           !.latest = LatestSetting(prerelease, input, config)]

\* The number of the open change request of the event's commit, whatever
\* became of the lookup.
EventPrNumberOfCommit(event) == event.number

\* The change-request number of the event: for a push the open change
\* request found for the pushed commit, null when there is none or the
\* lookup fails (the exception is caught and logged); for a pull_request
\* event the number of its payload.
EventPrNumber(event) ==
    IF event.name = "push"
    THEN IF event.lookup = "found" THEN event.number ELSE NoPr
    ELSE event.number

\* The arguments the drafter calls findReleases with: no prNumber and no
\* isPrereleaseRun are passed, so both are undefined in the call.
DrafterFindArgs(config, targetCommitish, list) ==
    [releases |-> list,
     targetCommitish |-> targetCommitish,
     filterByCommitish |-> config.filterByCommitish,
     includePreReleases |->
         config.includePreReleases
             \/ (config.prerelease /\ config.prereleaseIdentifier # ""),
     tagPrefix |-> config.tagPrefix,
     prNumber |-> NoPr,
     isPrereleaseRun |-> FALSE]

\* const { draftRelease, lastRelease } = await findReleases(...): the
\* result has the properties prSpecificRelease and lastRelease, so
\* draftRelease is undefined.
DestructuredDraftRelease(found) == NoRelease

\* The arguments the drafter calls generateReleaseInfo with.  The draft is
\* passed under the name draftRelease, which is no parameter of
\* generateReleaseInfo: its prSpecificRelease is undefined.
DrafterGenArgs(config, input, found, mergedPullRequests, targetCommitish, prNumber) ==
    [config |-> config,
     lastRelease |-> found.lastRelease,
     prSpecificRelease |-> NoRelease,
     mergedPullRequests |-> mergedPullRequests,
     tag |-> input.tag,
     isPreRelease |-> config.prerelease,
     latest |-> config.latest,
     shouldDraft |-> input.shouldDraft,
     targetCommitish |-> targetCommitish,
     prNumber |-> prNumber]

RECURSIVE MaxCreated(_)
MaxCreated(list) ==
    IF list = << >> THEN 0
    ELSE LET m == MaxCreated(Tail(list))
         IN IF Head(list).created_at > m THEN Head(list).created_at ELSE m

\* The platform refuses to publish a release under the tag of a published
\* release; a draft may carry any tag.
CreateIsRefused(list, releaseInfo) ==
    /\ ~releaseInfo.draft
    /\ \E r \in Elements(list) : ~r.draft /\ r.tag_name = releaseInfo.tag

\* createRelease: the release the platform adds for the descriptor.
createRelease(list, releaseInfo) ==
    Append(list,
           Release(Len(list) + 1, releaseInfo.tag, MaxCreated(list) + 1,
                   releaseInfo.draft, releaseInfo.prerelease,
                   releaseInfo.targetCommitish, releaseInfo.body))

\* updateRelease({ context, release, releaseInfo }): reading release.name
\* or release.id of an undefined release throws before the platform is
\* called; otherwise the release's body, flags, tag and target are
\* replaced, the target kept when the descriptor's is empty.
updateRelease(list, release, releaseInfo) ==
    IF release = NoRelease
    THEN [threw |-> TRUE, list |-> list]
    ELSE [threw |-> FALSE,
          list |-> [i \in DOMAIN list |->
                       IF list[i].id = release.id
                       THEN [list[i] EXCEPT
                                !.body = releaseInfo.body,
                                !.draft = releaseInfo.draft,
                                !.prerelease = releaseInfo.prerelease,
                                !.tag_name = releaseInfo.tag,
                                !.target_commitish =
                                    IF releaseInfo.targetCommitish # ""
                                    THEN releaseInfo.targetCommitish ELSE @]
                       ELSE list[i]]]

\* updateRelease({ context, draftRelease: draftRelease, releaseInfo, config }):
\* the drafter passes no property named release.
DrafterUpdateTarget(draftRelease) == NoRelease

\* The record of a run: what it knew, what generateReleaseInfo returned, the
\* publishing calls it made, and whether it failed towards its caller (an
\* exception or core.setFailed).
RunRecord(event, input, prNumber, config, fetched, out, calls, reported) ==
    [lookup |-> event.lookup,
     inputPrerelease |-> input.prerelease,
     prNumber |-> prNumber, prerelease |-> config.prerelease,
     identifier |-> config.prereleaseIdentifier, fetched |-> fetched,
     isNull |-> out.isNull, info |-> out.info, calls |-> calls,
     reported |-> reported]

-----------------------------------------------------------------------------
(* The specification of findReleases alone: Init draws a release list and  *)
(* the arguments of the call, FindReleasesCall runs it.                    *)

beta == Str("beta")

\* The releases a list is drawn from: stable releases on several branches,
\* a tag without the prefix, a tag that is no version, published
\* pre-releases, drafts with the marker of pull request 1 or 2 and a draft
\* without a marker.  Tag names are unique, as the platform keeps them, and
\* so are the creation dates; the patch release v1.0.1 was created after
\* v2.0.0.
FindUniverse ==
    { Release(1, Tag("v", Ver(1, 0, 1, << >>)), 4, FALSE, FALSE, "main", << 0 >>),
      Release(2, Tag("v", Ver(2, 0, 0, << >>)), 2, FALSE, FALSE, "refs/heads/main", << 0 >>),
      Release(3, Tag("v", Ver(3, 0, 0, << >>)), 1, FALSE, FALSE, "dev", << 0 >>),
      Release(4, Tag("", Ver(2, 5, 0, << >>)), 6, FALSE, FALSE, "main", << >>),
      Release(5, Tag("v", Ver(2, 1, 0, << beta, Num(0) >>)), 7, FALSE, TRUE, "main", << 0 >>),
      Release(6, Tag("v", Ver(2, 1, 0, << beta, Num(1) >>)), 8, TRUE, TRUE, "main", << 0, 1 >>),
      Release(7, Tag("v", Ver(2, 2, 0, << beta, Num(0) >>)), 9, TRUE, TRUE, "main", << 0, 2 >>),
      Release(8, Tag("v", Ver(2, 0, 1, << beta, Num(4) >>)), 5, FALSE, TRUE, "main", << 0, 1 >>),
      Release(9, Tag("", JunkText), 3, FALSE, FALSE, "main", << 0 >>),
      Release(10, Tag("v", Ver(2, 3, 0, << >>)), 10, TRUE, FALSE, "main", << 0 >>) }

\* The sequences without repetition of at most n elements of S.
RECURSIVE InjectiveSeqs(_, _)
InjectiveSeqs(S, n) ==
    IF n = 0 THEN {<< >>}
    ELSE LET shorter == InjectiveSeqs(S, n - 1)
         IN shorter \cup
            {Append(p[1], p[2]) :
                 p \in {q \in shorter \X S :
                            Len(q[1]) = n - 1 /\ q[2] \notin Elements(q[1])}}

PrNumbers == {1, 2}

FindArgs ==
    [releases : InjectiveSeqs(FindUniverse, MaxReleases),
     targetCommitish : {"main", "refs/heads/main"},
     filterByCommitish : BOOLEAN,
     includePreReleases : BOOLEAN,
     tagPrefix : {"", "v"},
     prNumber : PrNumbers,
     isPrereleaseRun : BOOLEAN]

NoFindArgs ==
    [releases |-> << >>, targetCommitish |-> "", filterByCommitish |-> FALSE,
     includePreReleases |-> FALSE, tagPrefix |-> "", prNumber |-> NoPr,
     isPrereleaseRun |-> FALSE]

NoFindResult == [lastRelease |-> NoRelease, prSpecificRelease |-> NoRelease]

FindIdle == findPc = "idle" /\ findArgs = NoFindArgs /\ findResult = NoFindResult

NoKeyArgs == [mergedPullRequests |-> << >>, config |-> << >>, isPreRelease |-> FALSE]

KeyIdle == keyPc = "idle" /\ keyArgs = NoKeyArgs /\ keyResult = ""

NoGenArgs ==
    [config |-> << >>, lastRelease |-> NoRelease, prSpecificRelease |-> NoRelease,
     mergedPullRequests |-> << >>, tag |-> << >>, isPreRelease |-> FALSE,
     latest |-> "", shouldDraft |-> FALSE, targetCommitish |-> "", prNumber |-> NoPr]

DrafterIdle == repoReleases = << >> /\ runLog = << >>

CallIdle == callPc = "idle" /\ callArgs = << >> /\ callResult = << >>

PageIdle ==
    /\ releaseCount = 0
    /\ pagesRequested = 0
    /\ paginateDone = FALSE
    /\ morePages = FALSE

RestIdle == CallIdle /\ PageIdle

GenIdle ==
    /\ genPc = "idle"
    /\ genArgs = NoGenArgs
    /\ genLocals = InitialLocals(NoGenArgs)
    /\ genResult = NoDescriptor

InitFind ==
    /\ findPc = "call"
    /\ findArgs \in FindArgs
    /\ findResult = NoFindResult
    /\ KeyIdle
    /\ GenIdle
    /\ DrafterIdle
    /\ RestIdle

FindReleasesCall ==
    /\ findPc = "call"
    /\ findResult' = findReleases(findArgs)
    /\ findPc' = "returned"
    /\ UNCHANGED << findArgs, keyVars, genVars, drafterVars, restVars >>

NextFind == FindReleasesCall

SpecFind == InitFind /\ [][NextFind]_vars

-----------------------------------------------------------------------------
(* Properties of findReleases.                                             *)

PositionIn(s, r) == CHOOSE i \in 1..Len(s) : s[i] = r

PermutationsOf(s) ==
    {[i \in 1..Len(s) |-> s[f[i]]] : f \in Permutations(1..Len(s))}

\* r passes the commitish filter (when requested) and the tag-prefix filter.
PassesFilters(r, a) ==
    /\ a.filterByCommitish =>
           StripHeadRef(a.targetCommitish) = StripHeadRef(r.target_commitish)
    /\ a.tagPrefix # "" => r.tag_name.prefix = a.tagPrefix

Filtered(a) == {r \in Elements(a.releases) : PassesFilters(r, a)}

QualifiesAsBaseline(r, a) ==
    /\ PassesFilters(r, a)
    /\ ~r.draft
    /\ r.prerelease => a.includePreReleases

Qualifying(a) == {r \in Elements(a.releases) : QualifiesAsBaseline(r, a)}

SortedFiltered(a) == sortReleases(SelectedReleases(a), a.tagPrefix)

HighestSortedIn(r, S, a) ==
    /\ r \in S
    /\ \A q \in S : PositionIn(SortedFiltered(a), q) <= PositionIn(SortedFiltered(a), r)

\* The comparator is a consistent (total, transitive) order on S.
ConsistentOn(S, tagPrefix) ==
    /\ \A x, y \in S :
           Sign(SortCompare(x, y, tagPrefix)) = -Sign(SortCompare(y, x, tagPrefix))
    /\ \A x, y, z \in S :
           SortCompare(x, y, tagPrefix) <= 0 /\ SortCompare(y, z, tagPrefix) <= 0
               => SortCompare(x, z, tagPrefix) <= 0

\* C7: for every release list and every permutation of it findReleases
\* selects the same baseline release and the same change-request-scoped
\* draft, and the hybrid comparator of sortReleases is a total, transitive
\* order over the filtered set.
C7_OrderIndependent ==
    findPc = "returned" =>
        /\ \A p \in PermutationsOf(findArgs.releases) :
               findReleases([findArgs EXCEPT !.releases = p]) = findResult
        /\ ConsistentOn(Filtered(findArgs), findArgs.tagPrefix)

\* The part of C8 that holds: the baseline is the highest-sorted release
\* among those that pass the commitish filter (when requested) and the
\* tag-prefix filter, are not drafts and are not pre-releases unless
\* pre-releases are included; where every filtered tag is a version no
\* qualifying release has a greater version; the baseline is absent when no
\* release qualifies.
BaselineIsHighestQualifying ==
    LET a == findArgs
        last == findResult.lastRelease
    IN /\ Qualifying(a) = {} => last = NoRelease
       /\ Qualifying(a) # {} => HighestSortedIn(last, Qualifying(a), a)
       /\ (Qualifying(a) # {} /\ \A r \in Filtered(a) : IsValidVersion(r.tag_name))
              => \A q \in Qualifying(a) :
                     compareVersions(q.tag_name, last.tag_name) <= 0

\* C8 as amended: the baseline release returned by findReleases is the
\* highest-sorted qualifying release, and it is absent when no release
\* qualifies; when no release passes the commitish and tag-prefix filters,
\* including for an empty release list, the baseline and the draft are
\* both absent.
C8_Baseline ==
    findPc = "returned" =>
        /\ BaselineIsHighestQualifying
        /\ Filtered(findArgs) = {} => findResult = NoFindResult

\* C8 as stated: when no release qualifies as the baseline, the baseline
\* and the draft are both absent.
C8_AsStated ==
    findPc = "returned" =>
        /\ BaselineIsHighestQualifying
        /\ Qualifying(findArgs) = {} => findResult = NoFindResult

\* A call where releases were filtered out, several qualify and the
\* baseline is the one with the highest version, not the latest in the list.
C8_Witness ==
    /\ findPc = "returned"
    /\ Cardinality(Qualifying(findArgs)) >= 2
    /\ Cardinality(Filtered(findArgs)) < Len(findArgs.releases)
    /\ findArgs.filterByCommitish /\ findArgs.tagPrefix # ""
    /\ findResult.lastRelease # NoRelease
    /\ findResult.lastRelease # findArgs.releases[Len(findArgs.releases)]

\* The pre-release drafts among the filtered releases whose marker encodes
\* the current change-request number.
PrDrafts(a) ==
    {r \in Filtered(a) :
         r.draft /\ r.prerelease /\ PR_MARKER_REGEX(r.body) = a.prNumber}

\* C9: the change-request-scoped draft returned by findReleases is a
\* pre-release draft whose marker encodes the current change-request
\* number, the highest-sorted such release among the filtered releases; it
\* is absent when there is none; a release that is not a draft pre-release
\* or whose marker encodes another number is never selected.
C9_DraftIsPrDraft ==
    findPc = "returned" =>
        LET a == findArgs
            d == findResult.prSpecificRelease
        IN /\ d # NoRelease => HighestSortedIn(d, PrDrafts(a), a)
           /\ PrDrafts(a) = {} => d = NoRelease

-----------------------------------------------------------------------------
(* The specification of resolveVersionKeyIncrement alone.                  *)

\* The label lists of at most MaxLabels labels, none twice.
LabelLists == InjectiveSeqs(Labels, MaxLabels)

PullRequest(number, labels) == [number |-> number, labels |-> labels]

\* The lists of at most n changes, numbered by position.
RECURSIVE ChangeLists(_)
ChangeLists(n) ==
    IF n = 0 THEN {<< >>}
    ELSE LET shorter == ChangeLists(n - 1)
         IN shorter \cup
            {Append(p[1], PullRequest(n, p[2])) :
                 p \in {q \in shorter \X LabelLists : Len(q[1]) = n - 1}}

\* Two version-resolver configurations: one label per class, and one where
\* a label is listed for several classes.
VersionResolvers ==
    {[major |-> {"breaking"}, minor |-> {"feature"}, patch |-> {"fix"}, default |-> d] :
         d \in {"patch", "minor", "major"}}
    \cup
    {[major |-> {"breaking"}, minor |-> {"feature", "breaking"},
      patch |-> {"fix", "feature"}, default |-> "patch"]}

KeyConfigs ==
    [versionResolver : VersionResolvers,
     excludeLabels : {{}, {"skip"}},
     includeLabels : {{}, {"feature", "fix"}},
     prereleaseIdentifier : {"", "beta"}]

InitKey ==
    /\ keyPc = "call"
    /\ keyArgs \in [mergedPullRequests : ChangeLists(MaxChanges),
                     config : KeyConfigs,
                     isPreRelease : BOOLEAN]
    /\ keyResult = ""
    /\ FindIdle
    /\ GenIdle
    /\ DrafterIdle
    /\ RestIdle

ResolveVersionKeyIncrementCall ==
    /\ keyPc = "call"
    /\ keyResult' = resolveVersionKeyIncrement(
                        keyArgs.mergedPullRequests, keyArgs.config, keyArgs.isPreRelease)
    /\ keyPc' = "returned"
    /\ UNCHANGED << keyArgs, findVars, genVars, drafterVars, restVars >>

NextKey == ResolveVersionKeyIncrementCall

SpecKey == InitKey /\ [][NextKey]_vars

\* The labels of the changes that pass the exclude and include filters.
FilteredLabels(a) ==
    UNION {Elements(pr.labels) :
               pr \in {q \in Elements(a.mergedPullRequests) :
                          /\ Elements(q.labels) \cap a.config.excludeLabels = {}
                          /\ \/ a.config.includeLabels = {}
                             \/ Elements(q.labels) \cap a.config.includeLabels # {}}}

\* The bump classes those labels trigger.
TriggeredClasses(a) ==
    {k \in {"patch", "minor", "major"} :
         FilteredLabels(a) \cap a.config.versionResolver[k] # {}}

HighestClass(a) ==
    CASE "major" \in TriggeredClasses(a) -> "major"
      [] "minor" \in TriggeredClasses(a) -> "minor"
      [] "patch" \in TriggeredClasses(a) -> "patch"
      [] OTHER -> a.config.versionResolver.default

\* C10: resolveVersionKeyIncrement returns the highest-priority bump class
\* (major > minor > patch) among the classes triggered by any label of any
\* filtered change, whatever the order and number of changes and labels,
\* and the configured default class when no label triggers a class; on a
\* pre-release run with an identifier configured the result is that class
\* prefixed with "pre".
C10_HighestPriorityClass ==
    keyPc = "returned" =>
        keyResult =
            IF keyArgs.isPreRelease /\ keyArgs.config.prereleaseIdentifier # ""
            THEN PreKey(HighestClass(keyArgs))
            ELSE HighestClass(keyArgs)

\* What holds of the code: C10 for changes none of whose filtered labels
\* names an inherited property of labelToKeyMap.
C10_WithoutInheritedNames ==
    (keyPc = "returned" /\ \A l \in FilteredLabels(keyArgs) :
                               labelToKeyMap(keyArgs.config.versionResolver, l) # "inherited")
        => keyResult =
               IF keyArgs.isPreRelease /\ keyArgs.config.prereleaseIdentifier # ""
               THEN PreKey(HighestClass(keyArgs))
               ELSE HighestClass(keyArgs)

-----------------------------------------------------------------------------
(* The specification of generateReleaseInfo alone.                         *)

Published(id, tag, created) == Release(id, tag, created, FALSE, FALSE, "main", << 0 >>)

\* The baseline releases of a call: none, a stable release and a published
\* pre-release.
GenLastReleases ==
    { NoRelease,
      Published(1, Tag("v", Ver(1, 1, 0, << >>)), 1),
      [Published(2, Tag("v", Ver(1, 2, 0, << beta, Num(1) >>)), 2)
           EXCEPT !.prerelease = TRUE] }

PrDraft(id, tag, pr) == Release(id, tag, 3, TRUE, TRUE, "main", << 0, pr >>)

\* The tags of a change-request-scoped draft: <prefix>M.m.p-<identifier>.N
\* with and without the prefix, and the malformed ones: another
\* identifier, one pre-release segment, no pre-release part, a second
\* segment that is no number, and a tag that is no version.
GenDraftTags ==
    { Tag("v", Ver(1, 2, 0, << beta, Num(3) >>)),
      Tag("v", Ver(1, 2, 0, << beta, Num(0) >>)),
      Tag("", Ver(1, 2, 0, << beta, Num(3) >>)),
      Tag("v", Ver(2, 0, 0, << Str("alpha"), Num(1) >>)),
      Tag("v", Ver(1, 2, 0, << beta >>)),
      Tag("v", Ver(1, 2, 0, << >>)),
      Tag("v", Ver(1, 2, 0, << beta, Str("x") >>)),
      Tag("v", JunkText) }

GenDrafts(pr) == {NoRelease} \cup {PrDraft(10, t, pr) : t \in GenDraftTags}

GenChanges ==
    {<< >>} \cup {<< PullRequest(1, ls) >> : ls \in {<< >>, << "fix" >>, << "feature" >>, << "breaking" >>}}

GenConfigs ==
    [versionResolver :
         {[major |-> {"breaking"}, minor |-> {"feature"}, patch |-> {"fix"},
           default |-> "patch"]},
     excludeLabels : {{}},
     includeLabels : {{}},
     prereleaseIdentifier : {"", "beta"},
     tagPrefix : {"", "v"},
     header : {<< >>, << 2 >>}]

GenArgs ==
    UNION {[config : GenConfigs,
            lastRelease : GenLastReleases,
            prSpecificRelease : GenDrafts(pr),
            mergedPullRequests : GenChanges,
            tag : {<< >>, << Tag("v", Ver(9, 0, 0, << >>)) >>},
            isPreRelease : BOOLEAN,
            latest : {"true", "false"},
            shouldDraft : BOOLEAN,
            targetCommitish : {"refs/heads/main", "refs/tags/v1"},
            prNumber : {pr}] : pr \in {NoPr} \cup PrNumbers}

InitGen ==
    /\ genPc = "prSpecific"
    /\ genArgs \in GenArgs
    /\ genLocals = InitialLocals(genArgs)
    /\ genResult = NoDescriptor
    /\ FindIdle
    /\ KeyIdle
    /\ DrafterIdle
    /\ RestIdle

GenPrSpecific ==
    /\ genPc = "prSpecific"
    /\ genLocals' = PrSpecificPrereleaseLogic(genArgs, genLocals)
    /\ genPc' = "standard"
    /\ UNCHANGED << genArgs, genResult, findVars, keyVars, drafterVars, restVars >>

GenStandard ==
    /\ genPc = "standard"
    /\ IF genLocals.versionInfo = NoVersionInfo
       THEN \E versionInfo \in StandardVersionInfos(genArgs) :
                IF ~versionInfo.resolved
                THEN /\ genLocals' = [genLocals EXCEPT !.standardCalculationRan = TRUE]
                     /\ genPc' = "returnedNull"
                ELSE /\ genLocals' = StandardVersionCalculation(genArgs, genLocals, versionInfo)
                     /\ genPc' = "body"
       ELSE /\ genPc' = "body"
            /\ UNCHANGED genLocals
    /\ UNCHANGED << genArgs, genResult, findVars, keyVars, drafterVars, restVars >>

GenBody ==
    /\ genPc = "body"
    /\ genResult' = BuildDescriptor(genArgs, genLocals)
    /\ genPc' = "returned"
    /\ UNCHANGED << genArgs, genLocals, findVars, keyVars, drafterVars, restVars >>

NextGen == GenPrSpecific \/ GenStandard \/ GenBody

SpecGen == InitGen /\ [][NextGen]_vars

GenReturned == genPc \in {"returned", "returnedNull"}

\* C1: in every run of generateReleaseInfo exactly one of the two version
\* computations takes effect, the pre-release-suffix increment or the
\* standard calculation; when the suffix increment ran, the standard
\* calculation is not executed afterwards and does not overwrite the
\* resolved version.
C1_ExactlyOneComputation ==
    /\ GenReturned =>
           genLocals.suffixIncrementRan # genLocals.standardCalculationRan
    /\ (genPc = "returned" /\ genLocals.suffixIncrementRan) =>
           genResult.resolvedVersion = genLocals.suffixVersion

\* The draft's tag is <prefix>M.m.p-<identifier>.N for the configured
\* identifier and a number N.
WellFormedDraftTag(a) ==
    /\ LET t == a.prSpecificRelease.tag_name
       IN /\ t.shape = "semver"
          /\ Len(t.pre) = 2
          /\ t.pre[1] = Str(a.config.prereleaseIdentifier)
          /\ t.pre[2].num

PrereleaseRunWithDraft(a) ==
    /\ a.isPreRelease
    /\ a.config.prereleaseIdentifier # ""
    /\ a.prNumber # NoPr
    /\ a.prSpecificRelease # NoRelease

\* C2: for a pre-release run with a known change-request number whose
\* matched draft has the tag <prefix>M.m.p-<identifier>.N, the descriptor
\* has resolvedVersion M.m.p-<identifier>.(N+1) and majorVersion,
\* minorVersion, patchVersion M, m, p, whatever the labels and the
\* baseline release.
C2_SuffixIncremented ==
    (genPc = "returned" /\ PrereleaseRunWithDraft(genArgs) /\ WellFormedDraftTag(genArgs)) =>
        LET t == genArgs.prSpecificRelease.tag_name
        IN /\ genResult.resolvedVersion =
                  Ver(t.major, t.minor, t.patch, << t.pre[1], Num(t.pre[2].n + 1) >>)
           /\ genResult.majorVersion = t.major
           /\ genResult.minorVersion = t.minor
           /\ genResult.patchVersion = t.patch

\* The draft's tag is malformed for reconciliation: it is no version, has
\* fewer than two pre-release segments, or its first segment is not the
\* configured identifier.
MalformedDraftTag(a) ==
    LET t == a.prSpecificRelease.tag_name
    IN \/ t.shape # "semver"
       \/ Len(t.pre) < 2
       \/ t.pre[1] # Str(a.config.prereleaseIdentifier)

\* C5: when a change-request-scoped draft is found but its tag is
\* malformed, generateReleaseInfo behaves as if no draft existed: the
\* standard version path is used, suffix 0 is seeded under the configured
\* identifier, and foundPrSpecificDraft is false.
C5_MalformedDraftIsNoDraft ==
    (genPc = "returned" /\ PrereleaseRunWithDraft(genArgs) /\ MalformedDraftTag(genArgs)) =>
        /\ genLocals.standardCalculationRan
        /\ genResult.resolvedVersion.pre =
               << Str(genArgs.config.prereleaseIdentifier), Num(0) >>
        /\ ~genResult.foundPrSpecificDraft

\* A release published with the descriptor of the run.
ReleaseOf(info) ==
    Release(1, info.tag, 1, info.draft, info.prerelease, "main", info.body)

\* C16: the body of the descriptor of a pre-release run for change request
\* n contains the marker line of n exactly once, as its last line, and a
\* release with that body is matched by the scan of findReleases for n and
\* for no other number, whatever lines the header puts into the body.
C16_MarkerRoundTrip ==
    (genPc = "returned" /\ IsPrereleaseRun(genArgs)) =>
        LET body == genResult.body
            n == genArgs.prNumber
        IN  /\ body[Len(body)] = n
            /\ Cardinality({i \in DOMAIN body : body[i] = n}) = 1
            /\ \A m \in PrNumbers :
                   IsPrCandidate(ReleaseOf(genResult), m) <=> m = n

-----------------------------------------------------------------------------
(* The drafter: runs of the handler against the releases of a repository.  *)

\* The most runs of the drafter.
MaxRuns == 2

DrafterInitialReleases ==
    { << >>,
      << Published(1, Tag("v", Ver(1, 1, 0, << >>)), 1) >>,
      << Published(1, Tag("v", Ver(1, 1, 0, << >>)), 1),
         Release(2, Tag("v", Ver(1, 2, 0, << beta, Num(3) >>)), 2, TRUE, TRUE,
                 "refs/heads/main", << 0, 1 >>) >> }

DrafterEvents ==
    {[name |-> "push", lookup |-> "found", number |-> n] : n \in PrNumbers}
        \cup {[name |-> "push", lookup |-> "failed", number |-> n] :
                  n \in PrNumbers}
        \cup {[name |-> "push", lookup |-> "none", number |-> NoPr]}
        \cup {[name |-> "pull_request", lookup |-> "", number |-> 1]}

DrafterInputs ==
    [disableReleaser : BOOLEAN,
     shouldDraft : BOOLEAN,
     prerelease : {"", "true", "false"},
     preReleaseIdentifier : {"", "beta"},
     latest : {"", "legacy"},
     tag : {<< >>}]

DrafterConfigs ==
    [versionResolver :
         {[major |-> {"breaking"}, minor |-> {"feature"}, patch |-> {"fix"},
           default |-> "patch"]},
     excludeLabels : {{}},
     includeLabels : {{}},
     prereleaseIdentifier : {""},
     tagPrefix : {"v"},
     prerelease : BOOLEAN,
     latest : {"true"},
     filterByCommitish : {FALSE},
     includePreReleases : {FALSE},
     header : {<< >>}]

DrafterChanges == {<< >>, << PullRequest(1, << "feature" >>) >>}

Init ==
    /\ repoReleases \in DrafterInitialReleases
    /\ runLog = << >>
    /\ FindIdle
    /\ KeyIdle
    /\ GenIdle
    /\ RestIdle

\* One run of drafter(context).
Drafter ==
    /\ Len(runLog) < MaxRuns
    /\ \E event \in DrafterEvents, input \in DrafterInputs,
          fileConfig \in DrafterConfigs, isTriggerableReference \in BOOLEAN,
          mergedPullRequests \in DrafterChanges :
          IF input.disableReleaser \/ ~isTriggerableReference
          THEN UNCHANGED drafterVars
          ELSE LET config == updateConfigFromInput(fileConfig, input)
                   prNumber == EventPrNumber(event)
                   targetCommitish == "refs/heads/main"
                   found == findReleases(
                                DrafterFindArgs(config, targetCommitish, repoReleases))
                   draftRelease == DestructuredDraftRelease(found)
                   a == DrafterGenArgs(config, input, found, mergedPullRequests,
                                       targetCommitish, prNumber)
               IN \E out \in generateReleaseInfo(a) :
                      IF out.isNull
                      THEN /\ runLog' = Append(runLog,
                                  RunRecord(event, input, prNumber, config, repoReleases, out, << >>, FALSE))
                           /\ UNCHANGED repoReleases
                      ELSE IF ~out.info.foundPrSpecificDraft
                      THEN IF CreateIsRefused(repoReleases, out.info)
                           THEN /\ runLog' = Append(runLog,
                                       RunRecord(event, input, prNumber, config, repoReleases, out,
                                                 << "create" >>, TRUE))
                                /\ UNCHANGED repoReleases
                           ELSE /\ repoReleases' = createRelease(repoReleases, out.info)
                                /\ runLog' = Append(runLog,
                                       RunRecord(event, input, prNumber, config, repoReleases, out,
                                                 << "create" >>, FALSE))
                      ELSE LET updated == updateRelease(repoReleases,
                                              DrafterUpdateTarget(draftRelease), out.info)
                           IN /\ repoReleases' = updated.list
                              /\ runLog' = Append(runLog,
                                     RunRecord(event, input, prNumber, config, repoReleases, out,
                                               IF updated.threw THEN << >> ELSE << "update" >>,
                                               updated.threw))
    /\ UNCHANGED << findVars, keyVars, genVars, restVars >>

Next == Drafter

Spec == Init /\ [][Next]_vars

\* A run for a change request that previews a pre-release and produced a
\* descriptor.
PreviewRun(r) ==
    r.prerelease /\ r.identifier # "" /\ r.prNumber # NoPr /\ ~r.isNull

\* C3: across successive drafter runs for the same change request, each
\* seeing the draft published by the run before, the suffix counter goes
\* from N to N+1 with major, minor and patch fixed: the run after a run
\* that published <M>.<m>.<p>-<identifier>.<N> as a draft resolves
\* <M>.<m>.<p>-<identifier>.<N+1>.
C3_SuffixFollowsPreviousRun ==
    \A i \in DOMAIN runLog : \A j \in DOMAIN runLog :
        (/\ j = i + 1
         /\ PreviewRun(runLog[i]) /\ PreviewRun(runLog[j])
         /\ runLog[i].prNumber = runLog[j].prNumber
         /\ runLog[i].identifier = runLog[j].identifier
         /\ runLog[i].info.draft
         /\ runLog[i].calls # << >> /\ ~runLog[i].reported
         /\ Len(runLog[i].info.resolvedVersion.pre) = 2
         /\ runLog[i].info.resolvedVersion.pre[2].num)
        => LET v == runLog[i].info.resolvedVersion
           IN runLog[j].info.resolvedVersion =
                  Ver(v.major, v.minor, v.patch, << v.pre[1], Num(v.pre[2].n + 1) >>)

\* The drafts among the releases a run fetched that are tied to the run's
\* change request.
FetchedPrDrafts(r) ==
    {d \in Elements(r.fetched) :
         d.draft /\ d.prerelease /\ PR_MARKER_REGEX(d.body) = r.prNumber}

\* C4: a drafter run that produces a descriptor makes exactly one
\* publishing call: updateRelease, and not createRelease, when a draft
\* tied to its change request exists among the fetched releases, and
\* createRelease, and not updateRelease, otherwise.
C4_OnePublishingCall ==
    \A i \in DOMAIN runLog :
        LET r == runLog[i]
        IN ~r.isNull =>
               /\ Len(r.calls) = 1
               /\ (PreviewRun(r) /\ FetchedPrDrafts(r) # {}) => r.calls = << "update" >>
               /\ ~(PreviewRun(r) /\ FetchedPrDrafts(r) # {}) => r.calls = << "create" >>

\* C6: when version resolution yields no usable version the run aborts:
\* it makes no createRelease and no updateRelease call, and the failure
\* is reported to the caller.
C6_UnresolvedVersionIsReported ==
    \A i \in DOMAIN runLog :
        runLog[i].isNull => (runLog[i].calls = << >> /\ runLog[i].reported)

\* The runs whose lookup of the pull requests of the pushed commit failed.
FailedLookupRuns == {i \in DOMAIN runLog : runLog[i].lookup = "failed"}

PublishingRuns == {i \in DOMAIN runLog : ~runLog[i].isNull}

\* C20: whenever the effective prerelease setting of a run, the input's
\* when the input gives one and the configuration's otherwise, is true,
\* the descriptor the run publishes has prerelease = true and
\* make_latest = 'false', whatever the latest input and configuration are.
C20_PrereleaseIsNotLatest ==
    \A i \in PublishingRuns :
        LET r == runLog[i]
            effective == IF r.inputPrerelease # "" THEN r.inputPrerelease = "true"
                         ELSE r.prerelease
        IN  effective => (r.info.prerelease /\ r.info.make_latest = "false")

\* A run whose input sets prerelease published a descriptor, and a later
\* run without prerelease published one marked by its latest setting.
C20_Witness ==
    /\ \E i \in PublishingRuns :
           /\ runLog[i].inputPrerelease = "true"
           /\ runLog[i].calls = << "create" >>
           /\ runLog[i].info.make_latest = "false"
    /\ \E i \in PublishingRuns :
           /\ runLog[i].inputPrerelease = "false"
           /\ runLog[i].info.make_latest = "legacy"

-----------------------------------------------------------------------------
(* The change log side of generateReleaseInfo: the same merged changes and *)
(* configuration go to resolveVersionKeyIncrement and, through             *)
(* generateChangeLog, to categorizePullRequests.                           *)

Category(title, labels) == [title |-> title, labels |-> labels]

CategoryLists ==
    { << >>,
      << Category("Features", {"feature"}), Category("Fixes", {"fix"}) >>,
      << Category("Changes", {"feature", "fix"}), Category("Fixes", {"fix"}),
         Category("Other", {}) >>,
      << Category("Misc", {}), Category("Rest", {}), Category("Breaking", {"breaking"}) >> }

ChangeConfigs ==
    [versionResolver :
         {[major |-> {"breaking"}, minor |-> {"feature"}, patch |-> {"fix"},
           default |-> "patch"]},
     excludeLabels : {{}, {"skip"}},
     includeLabels : {{}, {"feature", "fix"}},
     prereleaseIdentifier : {""},
     categories : CategoryLists]

InitChange ==
    /\ callPc = "call"
    /\ callArgs \in [mergedPullRequests : ChangeLists(MaxChanges), config : ChangeConfigs]
    /\ callResult = << >>
    /\ PageIdle
    /\ FindIdle
    /\ KeyIdle
    /\ GenIdle
    /\ DrafterIdle

ChangeLogCall ==
    /\ callPc = "call"
    /\ callResult' =
           [key |-> resolveVersionKeyIncrement(callArgs.mergedPullRequests,
                                               callArgs.config, FALSE),
            scanned |-> FilteredPullRequests(callArgs.mergedPullRequests, callArgs.config),
            changes |-> categorizePullRequests(callArgs.mergedPullRequests, callArgs.config)]
    /\ callPc' = "returned"
    /\ UNCHANGED << callArgs, pageVars, findVars, keyVars, genVars, drafterVars >>

NextChange == ChangeLogCall

SpecChange == InitChange /\ [][NextChange]_vars

\* A change passes the label filters: it has no excluded label, and it has
\* an included label when labels to include are configured.
PassesLabelFilters(pr, config) ==
    /\ Elements(pr.labels) \cap config.excludeLabels = {}
    /\ config.includeLabels # {} => Elements(pr.labels) \cap config.includeLabels # {}

\* The changes that appear in the change log.
InChangeLog(changes) ==
    Elements(changes.uncategorized)
        \cup UNION {Elements(changes.categorized[i].pullRequests) :
                        i \in DOMAIN changes.categorized}

\* alt differs from the change list only in the labels of changes that the
\* filters remove from both.
DiffersOnlyInFilteredOut(alt, pullRequests, config) ==
    /\ Len(alt) = Len(pullRequests)
    /\ \A i \in DOMAIN alt :
           \/ alt[i] = pullRequests[i]
           \/ /\ ~PassesLabelFilters(alt[i], config)
              /\ ~PassesLabelFilters(pullRequests[i], config)

\* C11: the changes scanned for version-bump labels are the changes that
\* can appear in the change log: two inputs that differ only in the labels
\* of filtered-out changes resolve to the same bump class, the scanned
\* changes are those that pass the filters, and they are the changes of the
\* change log.
C11_SameFilteredSet ==
    callPc = "returned" =>
        /\ \A alt \in ChangeLists(MaxChanges) :
               DiffersOnlyInFilteredOut(alt, callArgs.mergedPullRequests, callArgs.config)
                   => resolveVersionKeyIncrement(alt, callArgs.config, FALSE) = callResult.key
        /\ Elements(callResult.scanned) =
               {pr \in Elements(callArgs.mergedPullRequests) :
                    PassesLabelFilters(pr, callArgs.config)}
        /\ InChangeLog(callResult.changes) = Elements(callResult.scanned)

\* A call with a change the exclude filter removes that carries a bump
\* label, beside a change that is kept.
C11_Witness ==
    /\ callPc = "returned"
    /\ callArgs.config.excludeLabels = {"skip"}
    /\ \E i \in DOMAIN callArgs.mergedPullRequests :
           callArgs.mergedPullRequests[i].labels = << "breaking", "skip" >>
    /\ callResult.key = "minor"
    /\ Cardinality(InChangeLog(callResult.changes)) = 1

\* C12: categorizePullRequests puts each change that passes the filters in
\* the list of every category whose trigger labels intersect its labels,
\* and a change with no label of any category in the first category with
\* no trigger labels if there is one and otherwise in the uncategorized
\* list; no change is both uncategorized and in a category; every change
\* that passes the filters is in at least one list, and no other change is.
C12_Categorized ==
    callPc = "returned" =>
        LET config == callArgs.config
            categories == config.categories
            changes == callResult.changes
            labelled(pr) == Elements(pr.labels) \cap AllCategoryLabels(categories) # {}
            emptyOnes == {i \in DOMAIN categories : categories[i].labels = {}}
        IN /\ \A pr \in Elements(callArgs.mergedPullRequests) :
                  IF PassesLabelFilters(pr, config)
                  THEN /\ \A i \in DOMAIN categories :
                              pr \in Elements(changes.categorized[i].pullRequests)
                                  <=> \/ Elements(pr.labels) \cap categories[i].labels # {}
                                      \/ /\ ~labelled(pr)
                                         /\ i \in emptyOnes
                                         /\ \A j \in emptyOnes : i <= j
                       /\ pr \in Elements(changes.uncategorized)
                              <=> (~labelled(pr) /\ emptyOnes = {})
                       /\ pr \in InChangeLog(changes)
                  ELSE pr \notin InChangeLog(changes)
           /\ \A i \in DOMAIN categories :
                  Elements(changes.uncategorized)
                      \cap Elements(changes.categorized[i].pullRequests) = {}

\* A call where one change is in two categories and another, with a label
\* of no category, is in the category without trigger labels.
C12_Witness ==
    /\ callPc = "returned"
    /\ Len(callArgs.config.categories) = 3
    /\ \E pr \in Elements(callArgs.mergedPullRequests) :
           /\ pr \in Elements(callResult.changes.categorized[1].pullRequests)
           /\ pr \in Elements(callResult.changes.categorized[2].pullRequests)
    /\ \E pr \in Elements(callArgs.mergedPullRequests) :
           /\ pr.labels = << "constructor" >>
           /\ pr \in Elements(callResult.changes.categorized[3].pullRequests)

-----------------------------------------------------------------------------
(* The specification of escapeTitle alone.                                 *)

\* The longest title.
MaxTitle == 5

TitleChars == {"a", "*", "@", BackTick}

RECURSIVE Titles(_)
Titles(n) ==
    IF n = 0 THEN {<< >>}
    ELSE Titles(n - 1)
             \cup {Append(t, c) : t \in {u \in Titles(n - 1) : Len(u) = n - 1},
                                  c \in TitleChars}

\* The values of config['change-title-escapes'], as sets of characters.
EscapeSets == SUBSET {"*", "@", BackTick}

InitEscape ==
    /\ callPc = "call"
    /\ callArgs \in [title : Titles(MaxTitle), escapes : EscapeSets]
    /\ callResult = << >>
    /\ PageIdle
    /\ FindIdle
    /\ KeyIdle
    /\ GenIdle
    /\ DrafterIdle

EscapeTitleCall ==
    /\ callPc = "call"
    /\ callResult' = escapeTitle(callArgs.title, callArgs.escapes)
    /\ callPc' = "returned"
    /\ UNCHANGED << callArgs, pageVars, findVars, keyVars, genVars, drafterVars >>

NextEscape == EscapeTitleCall

SpecEscape == InitEscape /\ [][NextEscape]_vars

\* The back-ticks of the title before position i.
BackTicksBefore(title, i) == Cardinality({j \in 1..(i - 1) : title[j] = BackTick})

\* Position i lies in a back-tick delimited code span, the delimiters
\* included: back-ticks pair up from the left.
InCodeSpan(title, i) ==
    IF title[i] = BackTick
    THEN \/ BackTicksBefore(title, i) % 2 = 1
         \/ \E j \in (i + 1)..Len(title) : title[j] = BackTick
    ELSE /\ BackTicksBefore(title, i) % 2 = 1
         /\ \E j \in (i + 1)..Len(title) : title[j] = BackTick

Escaped(c) == IF c = "@" \/ c = "#" THEN c \o "<!---->" ELSE "\\" \o c

\* The title with the characters of the escape set escaped outside the
\* code spans and the code spans verbatim.
EscapedOutsideSpans(title, escapes) ==
    [i \in 1..Len(title) |->
         IF ~InCodeSpan(title, i) /\ title[i] \in escapes
         THEN Escaped(title[i]) ELSE title[i]]

\* C13 as stated: for every escape set, the characters of the set outside
\* the code spans are escaped and every code span is passed through
\* verbatim.
C13_AsStated ==
    callPc = "returned" =>
        callResult = EscapedOutsideSpans(callArgs.title, callArgs.escapes)

\* C13: for an escape set without the back-tick, every character of the
\* set outside a back-tick delimited code span is replaced by a backslash
\* and the character, '@' and '#' by the character and '<!---->', and every
\* code span is passed through verbatim; for an escape set with the
\* back-tick there are no code spans: every character of the set is
\* escaped wherever it is, the back-ticks too.
C13_EscapeTitle ==
    callPc = "returned" =>
        IF BackTick \in callArgs.escapes
        THEN callResult =
                 [i \in 1..Len(callArgs.title) |->
                      IF callArgs.title[i] \in callArgs.escapes
                      THEN Escaped(callArgs.title[i]) ELSE callArgs.title[i]]
        ELSE callResult = EscapedOutsideSpans(callArgs.title, callArgs.escapes)

\* A title with a character of the escape set inside a code span and
\* characters of the set outside, after a second span-less back-tick.
C13_Witness ==
    /\ callPc = "returned"
    /\ callArgs.escapes = {"*", "@"}
    /\ callArgs.title = << "*", BackTick, "*", BackTick, "@" >>
    /\ callResult = << "\\*", BackTick, "*", BackTick, "@<!---->" >>

-----------------------------------------------------------------------------
(* The specification of contributorsSentence alone.                        *)

\* The most commits, and the most pull requests, of a call.
MaxAuthors == 2

Logins == {"a", "b"}

AuthorNames == {"A", "c"}

Commits ==
    {[author |-> [user |-> u, name |-> n]] :
         u \in Logins \cup {NoUser}, n \in AuthorNames}

AuthoredPullRequests ==
    {[author |-> NoAuthor]}
        \cup {[author |-> [login |-> l, typename |-> t]] :
                  l \in Logins, t \in {"User", "Bot"}}

RECURSIVE SeqsUpTo(_, _)
SeqsUpTo(S, n) ==
    IF n = 0 THEN {<< >>}
    ELSE SeqsUpTo(S, n - 1)
             \cup {Append(t, x) : t \in {u \in SeqsUpTo(S, n - 1) :
                                              Len(u) = n - 1},
                                  x \in S}

ContribConfigs ==
    [excludeContributors : SUBSET Logins,
     noContributorsTemplate : {<< "No contributors" >>}]

InitContrib ==
    /\ callPc = "call"
    /\ callArgs \in [commits : SeqsUpTo(Commits, MaxAuthors),
                      pullRequests : SeqsUpTo(AuthoredPullRequests, MaxAuthors),
                      config : ContribConfigs]
    /\ callResult = << >>
    /\ PageIdle
    /\ FindIdle
    /\ KeyIdle
    /\ GenIdle
    /\ DrafterIdle

ContributorsSentenceCall ==
    /\ callPc = "call"
    /\ callResult' = contributorsSentence(callArgs.commits,
                                          callArgs.pullRequests,
                                          callArgs.config)
    /\ callPc' = "returned"
    /\ UNCHANGED << callArgs, pageVars, findVars, keyVars, genVars, drafterVars >>

NextContrib == ContributorsSentenceCall

SpecContrib == InitContrib /\ [][NextContrib]_vars

\* The identifiers of the contributors of a call: the commit authors and
\* the pull-request authors, the excluded logins left out.
ContributorIdentifiers(a) ==
    {<< "@", a.commits[i].author.user >> :
         i \in {j \in 1..Len(a.commits) :
                    /\ a.commits[j].author.user # NoUser
                    /\ a.commits[j].author.user
                           \notin a.config.excludeContributors}}
        \cup {<< a.commits[i].author.name >> :
                  i \in {j \in 1..Len(a.commits) :
                             a.commits[j].author.user = NoUser}}
        \cup {IF a.pullRequests[i].author.typename = "Bot"
              THEN << "[", a.pullRequests[i].author.login, "[bot]](url)" >>
              ELSE << "@", a.pullRequests[i].author.login >> :
                  i \in {j \in 1..Len(a.pullRequests) :
                             /\ a.pullRequests[j].author # NoAuthor
                             /\ a.pullRequests[j].author.login
                                    \notin a.config.excludeContributors}}

\* The elements of S, each once, in ascending order.
RECURSIVE Ascending(_)
Ascending(S) ==
    IF S = {} THEN << >>
    ELSE LET least == CHOOSE x \in S : \A y \in S \ {x} : StringLess(x, y)
         IN  << least >> \o Ascending(S \ {least})

\* The sentence of a list of identifiers: ', ' between all but the last
\* two, ' and ' before the last.
RECURSIVE SentenceOf(_)
SentenceOf(s) ==
    IF Len(s) = 1 THEN s[1]
    ELSE IF Len(s) = 2 THEN s[1] \o << " and " >> \o s[2]
         ELSE s[1] \o << ", " >> \o SentenceOf(Tail(s))

\* C14: contributorsSentence lists the identifier of every contributor,
\* commit authors and pull-request authors, excluded logins skipped, once
\* each and in ascending lexicographic order, joined with ', ' between all
\* but the last two and ' and ' before the last; one contributor gives the
\* identifier alone and none gives the configured placeholder.
C14_ContributorsSentence ==
    callPc = "returned" =>
        LET ids == ContributorIdentifiers(callArgs)
        IN  IF ids = {}
            THEN callResult = callArgs.config.noContributorsTemplate
            ELSE callResult = SentenceOf(Ascending(ids))

\* One contributor is both a commit author and a pull-request author,
\* another is excluded, and three identifiers are listed.
C14_Witness ==
    /\ callPc = "returned"
    /\ callArgs.config.excludeContributors = {"b"}
    /\ \E i \in 1..Len(callArgs.commits) :
           /\ callArgs.commits[i].author.user = "a"
           /\ \E j \in 1..Len(callArgs.pullRequests) :
                  callArgs.pullRequests[j].author
                      = [login |-> "a", typename |-> "User"]
    /\ \E j \in 1..Len(callArgs.pullRequests) :
           callArgs.pullRequests[j].author.login = "b"
    /\ \E i \in 1..Len(callArgs.commits) :
           callArgs.commits[i].author.user = NoUser
    /\ callResult = << "@", "a", " and ", "c" >>

-----------------------------------------------------------------------------
(* The engine run twice on one snapshot: findReleases followed by          *)
(* generateReleaseInfo, called as the drafter calls them.                  *)

\* The outcomes a call can have when lib/versions is a function of its
\* arguments: whether it resolves a version where there is no baseline
\* version is not known, but it is the same in every call.
ReturnedBy(outcomes, initialVersionResolved) ==
    {out \in outcomes :
         \A other \in outcomes :
             other.isNull # out.isNull => out.isNull = ~initialVersionResolved}

\* The configurations after updateConfigFromInput.
EngineConfigs ==
    {c \in [versionResolver :
                {[major |-> {"breaking"}, minor |-> {"feature"},
                  patch |-> {"fix"}, default |-> "patch"]},
            excludeLabels : {{}},
            includeLabels : {{}},
            prereleaseIdentifier : {"", "beta"},
            tagPrefix : {"", "v"},
            prerelease : BOOLEAN,
            latest : {"true", "false"},
            filterByCommitish : {FALSE},
            includePreReleases : {FALSE},
            header : {<< >>}] :
         c.prerelease => c.latest = "false"}

Snapshots ==
    [releases : InjectiveSeqs(FindUniverse, MaxReleases),
     mergedPullRequests : DrafterChanges,
     config : EngineConfigs,
     prNumber : {NoPr, 1},
     initialVersionResolved : BOOLEAN]

\* The locals of generateReleaseInfo declared outside the function: body
\* keeps what the call before left in it.
EngineLocalsKept(a, runs) ==
    IF runs = << >> \/ runs[Len(runs)].isNull
    THEN InitialLocals(a)
    ELSE [InitialLocals(a) EXCEPT !.body = runs[Len(runs)].info.body]

\* The locals of the call after the given runs: declared with let inside
\* the function, they start as declared whatever the runs before did.
EngineLocals(a, runs) == InitialLocals(a)

\* One run of the engine on a snapshot, after the given runs: the releases
\* are fetched anew, the baseline is found, the descriptor is generated.
Engine(snapshot, runs) ==
    LET targetCommitish == "refs/heads/main"
        input == [tag |-> << >>, shouldDraft |-> TRUE]
        found == findReleases(
                     DrafterFindArgs(snapshot.config, targetCommitish,
                                     snapshot.releases))
        a == DrafterGenArgs(snapshot.config, input, found,
                            snapshot.mergedPullRequests, targetCommitish,
                            snapshot.prNumber)
    IN  ReturnedBy(generateReleaseInfoFrom(a, EngineLocals(a, runs)),
                   snapshot.initialVersionResolved)

InitEngine ==
    /\ callPc = "call"
    /\ callArgs \in Snapshots
    /\ callResult = << >>
    /\ PageIdle
    /\ FindIdle
    /\ KeyIdle
    /\ GenIdle
    /\ DrafterIdle

EngineRun ==
    /\ callPc \in {"call", "retry"}
    /\ \E out \in Engine(callArgs, callResult) :
           callResult' = Append(callResult, out)
    /\ callPc' = IF callPc = "call" THEN "retry" ELSE "returned"
    /\ UNCHANGED << callArgs, pageVars, findVars, keyVars, genVars, drafterVars >>

NextEngine == EngineRun

SpecEngine == InitEngine /\ [][NextEngine]_vars

-----------------------------------------------------------------------------
(* The listing of the releases in findReleases: octokit.paginate requests  *)
(* a page, hands the response to the callback, and requests the next page  *)
(* while the response names one and the callback has not called done().    *)

RELEASE_COUNT_LIMIT == 1000

per_page == 100

\* The numbers of releases a page can hold.
PageSizes == {50, 99, per_page}

\* releaseCount > RELEASE_COUNT_LIMIT
LimitExceeded(count) == count > RELEASE_COUNT_LIMIT

\* releaseCount >= RELEASE_COUNT_LIMIT
LimitReached(count) == count >= RELEASE_COUNT_LIMIT

InitPaginate ==
    /\ callPc = "request"
    /\ callArgs = << >>
    /\ callResult = << >>
    /\ PageIdle
    /\ FindIdle
    /\ KeyIdle
    /\ GenIdle
    /\ DrafterIdle

\* paginate requests the first page, or the page the last response names.
RequestPage ==
    /\ callPc = "request"
    /\ pagesRequested' = pagesRequested + 1
    /\ callPc' = "response"
    /\ UNCHANGED << callArgs, callResult, releaseCount, paginateDone, morePages,
                    findVars, keyVars, genVars, drafterVars >>

\* The callback (response, done) => { ... } on the response to the request,
\* and paginate's decision after it.
PageResponse ==
    /\ callPc = "response"
    /\ \E size \in PageSizes, next \in BOOLEAN :
           /\ releaseCount' = releaseCount + size
           /\ paginateDone' = LimitReached(releaseCount + size)
           /\ morePages' = next
           /\ callPc' = IF LimitReached(releaseCount + size) \/ ~next
                        THEN "finished" ELSE "request"
    /\ UNCHANGED << callArgs, callResult, pagesRequested,
                    findVars, keyVars, genVars, drafterVars >>

NextPaginate == RequestPage \/ PageResponse

SpecPaginate == InitPaginate /\ [][NextPaginate]_vars

\* C17: a page is requested only while the number of releases received so
\* far is below the cap of 1000.
C17_NoRequestAfterCap ==
    [][pagesRequested' > pagesRequested => releaseCount < RELEASE_COUNT_LIMIT]_vars

\* Ten full pages were received, the last response named a further page,
\* and the listing ended without requesting it.
C17_Witness ==
    /\ callPc = "finished"
    /\ pagesRequested = 10
    /\ releaseCount = RELEASE_COUNT_LIMIT
    /\ paginateDone
    /\ morePages

-----------------------------------------------------------------------------
(* The objects the engine is given and the objects it makes.  An object is *)
(* known by its address; a write goes to an address and is seen by every   *)
(* holder of the object.                                                   *)

Address(space, index) == [space |-> space, index |-> index]

\* The i-th category definition of the configuration.
InputCategoryAddress(i) == Address("config.categories", i)

\* The i-th category definition itself taken as the working category.
SharedCategoryAddress(i) == Address("config.categories", i)

\* { ...category, pullRequests: [] }: a new object for the i-th category, to
\* which categorizePullRequests pushes the category's pull requests.
WorkingCategoryAddress(i) == Address("categorizedPullRequests", i)

\* The object literal generateReleaseInfo returns.
DescriptorAddress == Address("releaseInfo", 1)

\* The objects handed to the engine: the fetched releases, the merged
\* changes and the category definitions of the configuration.
InputAddresses(a) ==
    {Address("releases", a.releases[i].id) : i \in DOMAIN a.releases}
        \cup {Address("mergedPullRequests", i) : i \in DOMAIN a.mergedPullRequests}
        \cup {InputCategoryAddress(i) : i \in DOMAIN a.config.categories}

InputHeap(a) ==
    [addr \in InputAddresses(a) |->
         CASE addr.space = "releases" ->
                  CHOOSE r \in Elements(a.releases) : r.id = addr.index
           [] addr.space = "mergedPullRequests" ->
                  a.mergedPullRequests[addr.index]
           [] addr.space = "config.categories" ->
                  a.config.categories[addr.index]]

\* The heap after categorizePullRequests: the only writes are the pushes
\* to the pullRequests of the working categories.
HeapAfterCategorize(a) ==
    LET categorized ==
            categorizePullRequests(a.mergedPullRequests, a.config).categorized
        written == {WorkingCategoryAddress(i) : i \in DOMAIN a.config.categories}
    IN  [addr \in InputAddresses(a) \cup written |->
             IF addr \in written
             THEN categorized[CHOOSE i \in DOMAIN a.config.categories :
                                  addr = WorkingCategoryAddress(i)]
             ELSE InputHeap(a)[addr]]

\* The array paginate returned, after findReleases: releases.sort works in
\* place, on that array when no filter made a new one.  The array holds
\* the addresses of the release objects.
ReleasesArrayAfter(a) ==
    LET after == IF ~a.filterByCommitish /\ a.tagPrefix = ""
                 THEN sortReleases(a.releases, a.tagPrefix)
                 ELSE a.releases
    IN  [i \in DOMAIN after |-> Address("releases", after[i].id)]

FrameArgs ==
    [releases : InjectiveSeqs(FindUniverse, MaxReleases),
     targetCommitish : {"main"},
     filterByCommitish : BOOLEAN,
     tagPrefix : {"", "v"},
     mergedPullRequests :
         {<< >>,
          << PullRequest(1, << "feature" >>) >>,
          << PullRequest(1, << "fix" >>), PullRequest(2, << >>) >>},
     config : {c \in ChangeConfigs : c.excludeLabels = {} /\ c.includeLabels = {}}]

InitFrame ==
    /\ callPc = "call"
    /\ callArgs \in FrameArgs
    /\ callResult = << >>
    /\ PageIdle
    /\ FindIdle
    /\ KeyIdle
    /\ GenIdle
    /\ DrafterIdle

\* findReleases, then generateReleaseInfo with generateChangeLog and
\* categorizePullRequests inside: what they leave in memory.
EngineFrameCall ==
    /\ callPc = "call"
    /\ callResult' = [releases |-> ReleasesArrayAfter(callArgs),
                      heap |-> HeapAfterCategorize(callArgs),
                      descriptor |-> DescriptorAddress]
    /\ callPc' = "returned"
    /\ UNCHANGED << callArgs, pageVars, findVars, keyVars, genVars, drafterVars >>

NextFrame == EngineFrameCall

SpecFrame == InitFrame /\ [][NextFrame]_vars

=============================================================================
